---- MODULE Spec2Model ----
(***************************************************************************)
(* Model of src/src/registry.ts: a pull-through cache and import gateway   *)
(* for a container registry, backed by an object store (R2) and an         *)
(* upstream registry.  Every await of the handlers is one step of a task;  *)
(* the upstream registry and the store's failures are nondeterministic.    *)
(***************************************************************************)
EXTENDS Integers, Sequences, FiniteSets, TLC

(***************************************************************************)
(* Strings are sequences of one-character strings, so that the regular     *)
(* expressions of the identifier parser are computed, not assumed.         *)
(***************************************************************************)
Lower == {"a","b","c","d","e","f","g","h","i","j","k","l","m",
          "n","o","p","q","r","s","t","u","v","w","x","y","z"}
Upper == {"A","B","C","D","E","F","G","H","I","J","K","L","M",
          "N","O","P","Q","R","S","T","U","V","W","X","Y","Z"}
Digit == {"0","1","2","3","4","5","6","7","8","9"}
\* \w of the tag pattern
Word == Lower \cup Upper \cup Digit \cup {"_"}
\* [a-z0-9] of the digest pattern
LowerAlnum == Lower \cup Digit
\* [.+_-] of the digest pattern
AlgSep == {".", "+", "_", "-"}
\* [a-zA-Z0-9=_-] of the digest pattern
HashChar == Lower \cup Upper \cup Digit \cup {"=", "_", "-"}

EmptyStr == << >>

\* /^[\w][\w.-]{0,127}$/
tagSchema(s) ==
    /\ Len(s) >= 1
    /\ Len(s) <= 128
    /\ s[1] \in Word
    /\ \A i \in 2..Len(s) : s[i] \in Word \cup {".", "-"}

\* parseTag returns the candidate itself, or null (the empty string here:
\* the pattern never matches it)
parseTag(candidate) == IF tagSchema(candidate) THEN candidate ELSE EmptyStr

\* positions of ':' in s
Colons(s) == {i \in 1..Len(s) : s[i] = ":"}

\* [a-z0-9]+(?:[.+_-][a-z0-9]+)*
AlgSegment(s) ==
    /\ Len(s) >= 1
    /\ \A i \in 1..Len(s) : s[i] \in LowerAlnum \cup AlgSep
    /\ s[1] \in LowerAlnum
    /\ s[Len(s)] \in LowerAlnum
    /\ \A i \in 1..(Len(s) - 1) : ~(s[i] \in AlgSep /\ s[i + 1] \in AlgSep)

\* [a-zA-Z0-9=_-]+
HashSegment(s) ==
    /\ Len(s) >= 1
    /\ \A i \in 1..Len(s) : s[i] \in HashChar

\* /^[a-z0-9]+(?:[.+_-][a-z0-9]+)*:[a-zA-Z0-9=_-]+$/ : neither segment can
\* hold a ':', so a match has exactly one
digestSchema(s) ==
    /\ Cardinality(Colons(s)) = 1
    /\ LET c == CHOOSE i \in Colons(s) : TRUE
       IN  /\ AlgSegment(SubSeq(s, 1, c - 1))
           /\ HashSegment(SubSeq(s, c + 1, Len(s)))

Sha256 == <<"s","h","a","2","5","6">>
Sha384 == <<"s","h","a","3","8","4">>
Sha512 == <<"s","h","a","5","1","2">>

\* the null Digest
NoDigest == [algorithm |-> EmptyStr, hash |-> EmptyStr, digest |-> EmptyStr]

\* faulty variant: the algorithm is not checked against the three recognized ones
parseDigestAnyAlgorithm(candidate) ==
    IF ~digestSchema(candidate) THEN NoDigest
    ELSE LET c == CHOOSE i \in Colons(candidate) : TRUE
         IN  [algorithm |-> SubSeq(candidate, 1, c - 1),
              hash |-> SubSeq(candidate, c + 1, Len(candidate)),
              digest |-> candidate]

parseDigest(candidate) ==
    IF ~digestSchema(candidate) THEN NoDigest
    ELSE LET c         == CHOOSE i \in Colons(candidate) : TRUE
             algorithm == SubSeq(candidate, 1, c - 1)
             hash      == SubSeq(candidate, c + 1, Len(candidate))
         IN  IF algorithm \notin {Sha256, Sha384, Sha512} THEN NoDigest
             ELSE IF hash = EmptyStr THEN NoDigest
             ELSE [algorithm |-> algorithm, hash |-> hash, digest |-> candidate]

IsDigest(s) == parseDigest(s) # NoDigest

(***************************************************************************)
(* The upstream registry's content: one index of two platform images that  *)
(* share a config blob; one layer is larger than the part size.  A second  *)
(* index has, between two images, a manifest of a media type importAll     *)
(* does not know, and one manifest has no mediaType at all.                *)
(***************************************************************************)
partSize == 1024 * 1024 * 250

\* the largest blob upstream serves, in parts
MaxParts == 3

DIndex == Sha256 \o <<":", "i">>
DImg1  == Sha256 \o <<":", "m">>
DImg2  == Sha512 \o <<":", "n">>
DCfg   == Sha256 \o <<":", "c">>
DSmall == Sha256 \o <<":", "s">>
DBig   == Sha384 \o <<":", "B", "_">>
DIndexU  == Sha256 \o <<":", "u">>
DUnknown == Sha256 \o <<":", "x">>
DNoType  == Sha256 \o <<":", "y">>

TagV1  == <<"v", "1">>

MtDockerList == "application/vnd.docker.distribution.manifest.list.v2+json"
MtOciIndex   == "application/vnd.oci.image.index.v1+json"
MtDockerImg  == "application/vnd.docker.distribution.manifest.v2+json"
MtOciImg     == "application/vnd.oci.image.manifest.v1+json"
MtUnknown    == "application/vnd.example.unknown+json"
MtMissing    == ""

\* ImageIndex | ImageManifest, as one record shape
ImageIndex(mt, ms) ==
    [mediaType |-> mt, manifests |-> ms, config |-> EmptyStr, layers |-> << >>]
ImageManifest(mt, c, ls) ==
    [mediaType |-> mt, manifests |-> << >>, config |-> c, layers |-> ls]

UpManifests ==
    (DIndex :> ImageIndex(MtOciIndex, <<DImg1, DImg2>>)) @@
    (DImg1  :> ImageManifest(MtDockerImg, DCfg, <<DBig>>)) @@
    (DImg2  :> ImageManifest(MtOciImg, DCfg, <<DSmall>>)) @@
    (DIndexU  :> ImageIndex(MtDockerList, <<DImg2, DUnknown, DImg1>>)) @@
    (DUnknown :> ImageManifest(MtUnknown, DCfg, <<DBig>>)) @@
    (DNoType  :> ImageManifest(MtMissing, DCfg, <<DBig>>))

\* the sizes of the blobs upstream serves
UpBlobs ==
    (DCfg   :> 2) @@
    (DSmall :> partSize) @@
    (DBig   :> (MaxParts - 1) * partSize + 1)

UpTags == (TagV1 :> DIndex)

\* the references requests carry: a tag, digests, and malformed ones
BadAlgorithm == <<"m","d","5",":","a">>
BadHash      == Sha256 \o <<":">>
BadTag       == <<"-","x">>

Refs == {TagV1, DIndex, DImg1, DImg2, DCfg, DSmall, DBig,
         BadAlgorithm, BadHash, BadTag}

(***************************************************************************)
(* Responses.  A body names the content it carries by the digest of that   *)
(* content, with the byte window served.                                   *)
(***************************************************************************)
NoBody == [data |-> EmptyStr, off |-> 0, len |-> 0]
Bytes(d, off, len) == [data |-> d, off |-> off, len |-> len]

\* the absence of a response (null)
NoResp == [status |-> 0, ctype |-> "none", code |-> "none", body |-> NoBody,
           clen |-> -1, crange |-> << >>, origin |-> "none"]

\* Response.ok
Ok(res) == res.status \in 200..299

\* json({errors: [{code}]}, {status})
json(code, status) ==
    [status |-> status, ctype |-> "application/json", code |-> code,
     body |-> NoBody, clen |-> -1, crange |-> << >>, origin |-> "local"]

\* app.onError, and the catch of the _import route
InternalError == json("INTERNAL_ERROR", 500)

\* what the upstream registry answers to a fetch: with a body, without one
\* (2xx both), or non-2xx; a fetch may also reject (network failure)
FetchOutcomes == {"ok", "nobody", "fail", "throw"}
UpstreamFailStatus == 404

\* the absent Content-Length header
NoHeader == -1

UpstreamResponse(outcome, d, size, cl) ==
    CASE outcome = "ok" ->
           [status |-> 200, ctype |-> "upstream", code |-> "none",
            body |-> Bytes(d, 0, size), clen |-> cl, crange |-> << >>,
            origin |-> "upstream"]
      [] outcome = "nobody" ->
           [status |-> 204, ctype |-> "upstream", code |-> "none",
            body |-> NoBody, clen |-> NoHeader, crange |-> << >>,
            origin |-> "upstream"]
      [] OTHER ->
           [status |-> UpstreamFailStatus, ctype |-> "upstream",
            code |-> "UPSTREAM", body |-> NoBody, clen |-> NoHeader,
            crange |-> << >>, origin |-> "upstream"]

\* upstream serves a body only for what it has
Outcomes(known) == IF known THEN FetchOutcomes ELSE {"fail", "throw"}

(***************************************************************************)
(* The store (env.storage).  Keys are `${name}/<kind>/<id>` of one         *)
(* repository name.                                                        *)
(***************************************************************************)
Key(kind, id) == <<kind, id>>

Ids == DOMAIN UpManifests \cup DOMAIN UpBlobs
Keys == ({"manifests", "blobs"} \X Ids) \cup ({"tags"} \X DOMAIN UpTags)

Absent == [present |-> FALSE, data |-> EmptyStr, size |-> 0]
Object(d, size) == [present |-> TRUE, data |-> d, size |-> size]

Has(st, key) == key \in DOMAIN st /\ st[key].present

\* the byte window a request with a Range header asks for: bytes=0-0
RangeOffset == 0
RangeLength == 1

\* the bytes a request with `Range: bytes=-<RangeLength>` asks for: the store
\* reports the range it served in the form {suffix}, without offset and length
SuffixLength(size) == IF RangeLength < size THEN RangeLength ELSE size

\* getObject(req, env, key, headers): null when the key is absent
getObject(method, hdr, st, key) ==
    IF ~Has(st, key) THEN NoResp
    ELSE LET obj == st[key] IN
         IF method = "HEAD"
         THEN [status |-> 200, ctype |-> "none", code |-> "none", body |-> NoBody,
               clen |-> obj.size, crange |-> << >>, origin |-> "store"]
         ELSE IF hdr = "cond"       \* onlyIf failed: an object without a body
         THEN [status |-> 304, ctype |-> "none", code |-> "none", body |-> NoBody,
               clen |-> obj.size, crange |-> << >>, origin |-> "store"]
         ELSE IF hdr = "suffix"
         THEN [status |-> 206, ctype |-> "none", code |-> "none",
               body |-> Bytes(obj.data, obj.size - SuffixLength(obj.size),
                              SuffixLength(obj.size)),
               clen |-> obj.size, crange |-> << >>, origin |-> "store"]
         ELSE IF hdr = "range"
         THEN [status |-> 206, ctype |-> "none", code |-> "none",
               body |-> Bytes(obj.data, RangeOffset, RangeLength),
               clen |-> RangeLength,
               crange |-> <<RangeOffset, RangeOffset + RangeLength - 1, obj.size>>,
               origin |-> "store"]
         ELSE [status |-> 200, ctype |-> "none", code |-> "none",
               body |-> Bytes(obj.data, 0, obj.size), clen |-> obj.size,
               crange |-> << >>, origin |-> "store"]

\* new Response(obj.body, res): the stored body under the upstream
\* response's status and headers
Rewrap(obj, res) ==
    [res EXCEPT !.body = Bytes(obj.data, 0, obj.size), !.origin = "populate"]

\* new Response(null, {status: 404}): the re-read after a write found nothing
RereadMiss == [status |-> 404, ctype |-> "none", code |-> "none", body |-> NoBody,
               clen |-> -1, crange |-> << >>, origin |-> "local"]

(***************************************************************************)
(* State.  store is env.storage; task[p] is the request task p handles:    *)
(* its position (pc), the handler's locals, and a record of what it did;   *)
(* upstream is the digest each tag of the upstream registry points to.     *)
(***************************************************************************)
VARIABLES store, task, upstream

vars == <<store, task, upstream>>

\* the request tasks: the requests are handled one at a time, or two of
\* them at once
OneTask == {1}
TwoTasks == {1, 2}
Tasks == DOMAIN task

Methods == {"GET", "HEAD"}
\* no header; Range: bytes=<offset>-<end>; Range: bytes=-<length>; a
\* conditional header that the stored object does not pass
Headers == {"none", "range", "suffix", "cond"}

NoRequest == [route |-> "none", method |-> "GET", ref |-> EmptyStr, hdr |-> "none"]

IdleTask ==
    [pc |-> "idle",
     req |-> NoRequest,          \* route, method, :reference / :digest, headers
     tag |-> EmptyStr,           \* the parsed tag of the route
     digest |-> EmptyStr,        \* digest.digest of the route
     ctx |-> "none",             \* who called importManifest / importBlob
     stack |-> << >>,            \* the frames of importAll
     cur |-> EmptyStr,           \* digest.digest of importManifest / importBlob
     res |-> NoResp,             \* res of importManifest / importBlob
     tagRes |-> NoResp,          \* res of the _import route
     header |-> EmptyStr,        \* the Docker-Content-Digest header read
     contentLength |-> 0,
     idx |-> 0,
     parts |-> << >>,
     reads |-> 0,                \* calls of fromR2 by pullThroughRegistry
     populates |-> 0,            \* calls of fromRegistry by pullThroughRegistry
     popRes |-> NoResp,          \* what fromRegistry returned
     preloaded |-> FALSE,        \* importAll began with its whole graph stored
     upfail |-> FALSE,           \* upstream answered a fetch with a non-2xx
     resp |-> NoResp,            \* the response of the request
     log |-> << >>,              \* the upstream and store operations awaited
     uploads |-> << >>,          \* the multipart uploads begun
     first |-> NoResp]           \* the successful response to the request
                                 \* before this one, when it was the same

\* one awaited operation
\* (hit: whether the store held the key <<kind, id>> when it was issued)
Ev(op, kind, id, n) ==
    [op |-> op, kind |-> kind, id |-> id, n |-> n, hit |-> Has(store, Key(kind, id))]
Logged(t, e) == [t EXCEPT !.log = Append(@, e)]

Respond(t, r) == [t EXCEPT !.pc = "done", !.resp = r]

\* an exception that reaches app.onError or the catch of the _import route
Throw(t) == Respond(t, InternalError)

\* a step of task p; no handler changes what upstream holds
Set(p, t) == task' = [task EXCEPT ![p] = t] /\ UNCHANGED upstream

Init ==
    /\ store = [k \in Keys |-> Absent]
    /\ task = [p \in OneTask |-> IdleTask]
    /\ upstream = UpTags

\* the response is out and the task over; a successful answer of a
\* pull-through route stays known to the next request
Finish(p) ==
    /\ task[p].pc = "done"
    /\ Set(p, IF Ok(task[p].resp) /\ task[p].req.route \in {"manifests", "blobs"}
              THEN [IdleTask EXCEPT !.req = task[p].req, !.resp = task[p].resp]
              ELSE IdleTask)
    /\ UNCHANGED store

\* a request arrives at one of the three routes
Start(p) ==
    /\ task[p].pc = "idle"
    /\ \E route \in {"manifests", "blobs", "import"}, ref \in Refs,
          method \in Methods, hdr \in Headers :
         /\ route = "import" => (method = "GET" /\ hdr = "none")
         /\ method = "HEAD" => hdr = "none"
         /\ LET req == [route |-> route,
                        method |-> IF route = "import" THEN "POST" ELSE method,
                        ref |-> ref, hdr |-> hdr]
            IN  Set(p, [IdleTask EXCEPT
                          !.pc = route,
                          !.req = req,
                          !.first = IF req = task[p].req /\ Ok(task[p].resp)
                                    THEN task[p].resp ELSE NoResp])
    /\ UNCHANGED store

\* the key and the populate action the route hands to pullThroughRegistry
PullThrough(t, digest) == [t EXCEPT !.digest = digest, !.pc = "pt_read"]

\* app.get('/v2/:name{.*}/manifests/:reference')
ManifestRoute(p) ==
    LET t == task[p]
        tag == parseTag(t.req.ref)
        digest == parseDigest(t.req.ref)
    IN  /\ t.pc = "manifests"
        /\ IF tag # EmptyStr
           THEN Set(p, [t EXCEPT !.tag = tag, !.pc = "rt_get"])
           ELSE IF digest = NoDigest
           THEN Set(p, Respond(t, json("MANIFEST_UNKNOWN", 404)))
           ELSE Set(p, PullThrough(t, digest.digest))
        /\ UNCHANGED store

\* app.get('/v2/:name{.*}/blobs/:digest')
BlobRoute(p) ==
    LET t == task[p]
        digest == parseDigest(t.req.ref)
    IN  /\ t.pc = "blobs"
        /\ IF digest = NoDigest
           THEN Set(p, Respond(t, json("BLOB_UNKNOWN", 404)))
           ELSE Set(p, PullThrough(t, digest.digest))
        /\ UNCHANGED store

\* faulty variant: the tag is looked up upstream whether or not the store
\* has a mapping for it
ResolveTagGetRevalidate(p) ==
    LET t == Logged(task[p], Ev("get", "tags", task[p].tag, 0))
    IN  /\ task[p].pc = "rt_get"
        /\ Set(p, [t EXCEPT !.pc = "rt_fetch"])
        /\ UNCHANGED store

\* resolveTagToDigest: env.storage.get of the tag mapping
ResolveTagGet(p) ==
    LET t == Logged(task[p], Ev("get", "tags", task[p].tag, 0))
        key == Key("tags", t.tag)
    IN  /\ task[p].pc = "rt_get"
        /\ IF Has(store, key)
           THEN LET digest == parseDigest(store[key].data)
                IN  IF digest = NoDigest
                    THEN Set(p, Respond(t, json("MANIFEST_UNKNOWN", 404)))
                    ELSE Set(p, PullThrough(t, digest.digest))
           ELSE Set(p, [t EXCEPT !.pc = "rt_fetch"])
        /\ UNCHANGED store

\* the Docker-Content-Digest header upstream may send for a tag: the digest
\* the tag points to, none, or one that does not parse
TagHeaders(tag) ==
    IF tag \in DOMAIN upstream THEN {upstream[tag], EmptyStr, BadAlgorithm}
    ELSE {EmptyStr}

\* resolveTagToDigest: the fetch of the manifest by tag
ResolveTagFetch(p) ==
    LET t == Logged(task[p], Ev("fetch", "tags", task[p].tag, 0))
    IN  /\ task[p].pc = "rt_fetch"
        /\ \E outcome \in Outcomes(t.tag \in DOMAIN upstream), header \in TagHeaders(t.tag) :
             IF outcome = "throw" THEN Set(p, Throw(t))
             ELSE IF outcome = "fail" \/ header = EmptyStr
             THEN Set(p, Respond([t EXCEPT !.upfail = (outcome = "fail")],
                                 json("MANIFEST_UNKNOWN", 404)))
             ELSE Set(p, [t EXCEPT !.header = header, !.pc = "rt_put"])
        /\ UNCHANGED store

\* resolveTagToDigest: env.storage.put of the header, then parseDigest; the
\* store may reject the write
ResolveTagPut(p) ==
    LET t == Logged(task[p], Ev("put", "tags", task[p].tag, 0))
        digest == parseDigest(t.header)
    IN  /\ task[p].pc = "rt_put"
        /\ \/ /\ store' = [store EXCEPT ![Key("tags", t.tag)] =
                              Object(t.header, Len(t.header))]
              /\ IF digest = NoDigest
                 THEN Set(p, Respond(t, json("MANIFEST_UNKNOWN", 404)))
                 ELSE Set(p, PullThrough(t, digest.digest))
           \/ /\ Set(p, Throw(t))
              /\ UNCHANGED store

(***************************************************************************)
(* importAll, as a stack of frames: the manifest of the frame and the      *)
(* position of its loop.  For an index pos is the descriptor being         *)
(* imported; for an image 0 is the config and k >= 1 the k-th layer.       *)
(***************************************************************************)
IsIndex(mt) == mt \in {MtDockerList, MtOciIndex}
IsImage(mt) == mt \in {MtDockerImg, MtOciImg}

Frame(d, content, pos) == [digest |-> d, content |-> content, pos |-> pos]

\* the loop of the top frame moves on
Advance(stack) ==
    [stack EXCEPT ![Len(stack)] = [@ EXCEPT !.pos = @ + 1]]

\* faulty variant: the loop over the descriptors of an index does not move
\* on when the import of a descriptor returns
RECURSIVE ImportNextRepeat(_)
ImportNextRepeat(t) ==
    IF t.stack = << >>
    THEN [t EXCEPT !.pc = "imp_tagput"]
    ELSE LET f == t.stack[Len(t.stack)]
             rest == SubSeq(t.stack, 1, Len(t.stack) - 1)
             return == ImportNextRepeat([t EXCEPT !.stack = rest])
         IN  IF IsIndex(f.content.mediaType)
             THEN IF f.pos > Len(f.content.manifests) THEN return
                  ELSE LET digest == parseDigest(f.content.manifests[f.pos])
                       IN  IF digest = NoDigest THEN Throw(t)
                           ELSE [t EXCEPT !.cur = digest.digest, !.pc = "im_fetch"]
             ELSE IF f.pos > Len(f.content.layers) THEN return
                  ELSE LET descriptor == IF f.pos = 0 THEN f.content.config
                                         ELSE f.content.layers[f.pos]
                           digest == parseDigest(descriptor)
                       IN  IF digest = NoDigest THEN Throw(t)
                           ELSE [t EXCEPT !.cur = digest.digest, !.pc = "ia_head"]

\* the synchronous part of importAll up to its next await
RECURSIVE ImportNext(_)
ImportNext(t) ==
    IF t.stack = << >>
    THEN [t EXCEPT !.pc = "imp_tagput"]
    ELSE LET f == t.stack[Len(t.stack)]
             rest == SubSeq(t.stack, 1, Len(t.stack) - 1)
             return == ImportNext([t EXCEPT !.stack =
                          IF rest = << >> THEN rest ELSE Advance(rest)])
         IN  IF IsIndex(f.content.mediaType)
             THEN IF f.pos > Len(f.content.manifests) THEN return
                  ELSE LET digest == parseDigest(f.content.manifests[f.pos])
                       IN  IF digest = NoDigest THEN Throw(t)
                           ELSE [t EXCEPT !.cur = digest.digest, !.pc = "im_fetch"]
             ELSE IF f.pos > Len(f.content.layers) THEN return
                  ELSE LET descriptor == IF f.pos = 0 THEN f.content.config
                                         ELSE f.content.layers[f.pos]
                           digest == parseDigest(descriptor)
                       IN  IF digest = NoDigest THEN Throw(t)
                           ELSE [t EXCEPT !.cur = digest.digest, !.pc = "ia_head"]

\* faulty variant: a manifest that is not an index is taken for an image
ImportAfterManifestLenient(t, res) ==
    IF ~Ok(res) THEN Throw(t)
    ELSE IF res.body = NoBody THEN Throw(t)
    ELSE LET content == UpManifests[res.body.data]
         IN  IF IsIndex(content.mediaType)
             THEN ImportNext([t EXCEPT !.stack = Append(@, Frame(t.cur, content, 1))])
             ELSE ImportNext([t EXCEPT !.stack = Append(@, Frame(t.cur, content, 0))])

\* faulty variant: the loop over the layers starts without the config
ImportAfterManifestNoConfig(t, res) ==
    IF ~Ok(res) THEN Throw(t)
    ELSE IF res.body = NoBody THEN Throw(t)
    ELSE LET content == UpManifests[res.body.data]
         IN  IF content.mediaType = MtMissing THEN Throw(t)
             ELSE IF IsIndex(content.mediaType)
             THEN ImportNext([t EXCEPT !.stack = Append(@, Frame(t.cur, content, 1))])
             ELSE IF IsImage(content.mediaType)
             THEN ImportNext([t EXCEPT !.stack = Append(@, Frame(t.cur, content, 1))])
             ELSE Throw(t)

\* importAll after importManifest returned res
ImportAfterManifest(t, res) ==
    IF ~Ok(res) THEN Throw(t)
    ELSE IF res.body = NoBody THEN Throw(t)          \* res.json() rejects
    ELSE LET content == UpManifests[res.body.data]
         IN  IF content.mediaType = MtMissing THEN Throw(t)
             ELSE IF IsIndex(content.mediaType)
             THEN ImportNext([t EXCEPT !.stack = Append(@, Frame(t.cur, content, 1))])
             ELSE IF IsImage(content.mediaType)
             THEN ImportNext([t EXCEPT !.stack = Append(@, Frame(t.cur, content, 0))])
             ELSE Throw(t)

\* faulty variant: a HEAD request answers with what populate returned
AfterPopulateNoReread(t, res) == Respond([t EXCEPT !.popRes = res], res)

\* faulty variant: every request reads the store again after a successful populate
AfterPopulateReread(t, res) ==
    IF ~Ok(res) THEN Respond([t EXCEPT !.popRes = res], res)
    ELSE [t EXCEPT !.popRes = res, !.pc = "pt_reread"]

\* pullThroughRegistry after fromRegistry() returned res
AfterPopulate(t, res) ==
    LET r == [t EXCEPT !.popRes = res]
    IN  IF t.req.method = "HEAD"
        THEN IF ~Ok(res) THEN Respond(r, res) ELSE [r EXCEPT !.pc = "pt_reread"]
        ELSE Respond(r, res)

\* importManifest returns res to its caller
AfterManifest(t, res) ==
    IF t.ctx = "pull" THEN AfterPopulate(t, res) ELSE ImportAfterManifest(t, res)

\* importBlob returns res to its caller; importAll does not look at it
AfterBlob(t, res) ==
    IF t.ctx = "pull" THEN AfterPopulate(t, res)
    ELSE ImportNext([t EXCEPT !.stack = Advance(@)])

(***************************************************************************)
(* pullThroughRegistry                                                     *)
(***************************************************************************)
RouteKey(t) == Key(t.req.route, t.digest)

\* fromR2(), and on a miss the call of fromRegistry()
PullRead(p) ==
    LET t0 == task[p]
        t == [Logged(t0, Ev(IF t0.req.method = "HEAD" THEN "head" ELSE "get",
                            t0.req.route, t0.digest, 0))
                EXCEPT !.reads = @ + 1]
        object == getObject(t.req.method, t.req.hdr, store, RouteKey(t))
    IN  /\ t0.pc = "pt_read"
        /\ IF object # NoResp
           THEN Set(p, Respond(t, object))
           ELSE Set(p, [t EXCEPT !.populates = @ + 1, !.ctx = "pull", !.cur = t.digest,
                                 !.pc = IF t.req.route = "manifests" THEN "im_fetch"
                                        ELSE "ib_fetch"])
        /\ UNCHANGED store

\* the second fromR2() of a HEAD request
PullReread(p) ==
    LET t0 == task[p]
        t == [Logged(t0, Ev("head", t0.req.route, t0.digest, 0)) EXCEPT !.reads = @ + 1]
        object == getObject(t.req.method, t.req.hdr, store, RouteKey(t))
    IN  /\ t0.pc = "pt_reread"
        /\ IF object = NoResp
           THEN Set(p, Respond(t, json("BLOB_UNKNOWN", 404)))
           ELSE Set(p, Respond(t, object))
        /\ UNCHANGED store

(***************************************************************************)
(* importManifest                                                          *)
(***************************************************************************)
\* the length of a manifest's JSON text
ManifestSize(d) == 1 + Len(UpManifests[d].manifests) + Len(UpManifests[d].layers)

\* the re-read after a write: the object, or nothing (the code provides for
\* a store that does not show the object it just took)
RereadOutcomes == {"found", "missing"}

\* fetchFromRegistry of /manifests/<digest>
ImFetch(p) ==
    LET t == Logged(task[p], Ev("fetch", "manifests", task[p].cur, 0))
        known == t.cur \in DOMAIN UpManifests
    IN  /\ task[p].pc = "im_fetch"
        /\ \E outcome \in Outcomes(known) :
             IF outcome = "throw" THEN Set(p, Throw(t))
             ELSE LET size == IF known THEN ManifestSize(t.cur) ELSE 0
                      res == UpstreamResponse(outcome, t.cur, size, size)
                  IN  IF ~Ok(res) \/ res.body = NoBody
                      THEN Set(p, AfterManifest([t EXCEPT !.upfail = @ \/ ~Ok(res)], res))
                      ELSE Set(p, [t EXCEPT !.res = res, !.pc = "im_put"])
        /\ UNCHANGED store

\* faulty variant: a rejected write leaves the key without an object
ImPutClears(p) ==
    LET t == Logged(task[p], Ev("put", "manifests", task[p].cur, 0))
    IN  /\ task[p].pc = "im_put"
        /\ \/ /\ store' = [store EXCEPT ![Key("manifests", t.cur)] =
                              Object(t.res.body.data, t.res.body.len)]
              /\ Set(p, [t EXCEPT !.pc = "im_get"])
           \/ /\ Set(p, Throw(t))
              /\ store' = [store EXCEPT ![Key("manifests", t.cur)] = Absent]

\* env.storage.put of the manifest; the store may reject the write
ImPut(p) ==
    LET t == Logged(task[p], Ev("put", "manifests", task[p].cur, 0))
    IN  /\ task[p].pc = "im_put"
        /\ \/ /\ store' = [store EXCEPT ![Key("manifests", t.cur)] =
                              Object(t.res.body.data, t.res.body.len)]
              /\ Set(p, [t EXCEPT !.pc = "im_get"])
           \/ /\ Set(p, Throw(t))
              /\ UNCHANGED store

\* env.storage.get of the manifest just written
ImGet(p) ==
    LET t == Logged(task[p], Ev("get", "manifests", task[p].cur, 0))
        key == Key("manifests", t.cur)
    IN  /\ task[p].pc = "im_get"
        /\ \E seen \in RereadOutcomes :
             IF seen = "found" /\ Has(store, key)
             THEN Set(p, AfterManifest(t, Rewrap(store[key], t.res)))
             ELSE Set(p, AfterManifest(t, RereadMiss))
        /\ UNCHANGED store

(***************************************************************************)
(* importBlob                                                              *)
(***************************************************************************)
Min(a, b) == IF a < b THEN a ELSE b

\* faulty variant: the part count rounded down
CeilFloor(contentLength, size) == contentLength \div size

\* Math.ceil(contentLength / partSize)
Ceil(contentLength, size) == (contentLength + size - 1) \div size

\* Number(res.headers.get('content-length') ?? 0)
ContentLength(res) == IF res.clen = NoHeader THEN 0 ELSE res.clen

\* the bytes upstream serves for `bytes=<lo>-<hi>` of a blob of the given size
RangeLen(lo, hi, size) == IF lo >= size THEN 0 ELSE Min(hi, size - 1) - lo + 1

RECURSIVE SumLen(_)
SumLen(parts) ==
    IF parts = << >> THEN 0 ELSE parts[1].len + SumLen(Tail(parts))

\* a multipart upload: what was asked of it and what became of it
Upload(id, contentLength) ==
    [id |-> id, contentLength |-> contentLength, ranges |-> << >>, parts |-> << >>,
     failed |-> FALSE, completes |-> 0, tokens |-> << >>, completed |-> FALSE,
     aborted |-> FALSE]

\* the multipart upload importBlob is working on is the last one it began
CurrentUpload(t) == t.uploads[Len(t.uploads)]
SetUpload(t, u) == [t EXCEPT !.uploads = [@ EXCEPT ![Len(@)] = u]]

\* a step inside the try failed: the catch runs next
Caught(t) ==
    [SetUpload(t, [CurrentUpload(t) EXCEPT !.failed = TRUE]) EXCEPT !.pc = "ib_abort"]

\* fetchFromRegistry of /blobs/<digest>
IbFetch(p) ==
    LET t == Logged(task[p], Ev("fetch", "blobs", task[p].cur, 0))
        known == t.cur \in DOMAIN UpBlobs
    IN  /\ task[p].pc = "ib_fetch"
        /\ \E outcome \in Outcomes(known) :
           \E cl \in (IF known THEN {UpBlobs[t.cur], NoHeader} ELSE {NoHeader}) :
             IF outcome = "throw" THEN Set(p, Throw(t))
             ELSE LET size == IF known THEN UpBlobs[t.cur] ELSE 0
                      res == UpstreamResponse(outcome, t.cur, size, cl)
                      contentLength == ContentLength(res)
                  IN  IF ~Ok(res) \/ res.body = NoBody
                      THEN Set(p, AfterBlob([t EXCEPT !.upfail = @ \/ ~Ok(res)], res))
                      ELSE Set(p, [t EXCEPT !.res = res, !.contentLength = contentLength,
                                            !.pc = IF contentLength > partSize
                                                   THEN "ib_create" ELSE "ib_put"])
        /\ UNCHANGED store

\* env.storage.put of the blob (single-shot)
IbPut(p) ==
    LET t == Logged(task[p], Ev("put", "blobs", task[p].cur, task[p].contentLength))
    IN  /\ task[p].pc = "ib_put"
        /\ \/ /\ store' = [store EXCEPT ![Key("blobs", t.cur)] =
                              Object(t.res.body.data, t.res.body.len)]
              /\ Set(p, [t EXCEPT !.pc = "ib_get"])
           \/ /\ Set(p, Throw(t))
              /\ UNCHANGED store

\* env.storage.createMultipartUpload
IbCreate(p) ==
    LET t == Logged(task[p], Ev("create", "blobs", task[p].cur, task[p].contentLength))
    IN  /\ task[p].pc = "ib_create"
        /\ \/ Set(p, [t EXCEPT !.uploads = Append(@, Upload(t.cur, t.contentLength)),
                               !.parts = << >>, !.idx = 0, !.pc = "ib_partfetch"])
           \/ Set(p, Throw(t))
        /\ UNCHANGED store

\* faulty variant: the window of a part ends one byte late
PartRangeLate(idx) == <<idx * partSize, (idx + 1) * partSize>>

\* `bytes=${idx * partSize}-${(idx + 1) * partSize - 1}`
PartRange(idx) == <<idx * partSize, (idx + 1) * partSize - 1>>

\* the ranged fetchFromRegistry of part idx
IbPartFetch(p) ==
    LET t0 == task[p]
        t == SetUpload(Logged(t0, Ev("fetch", "blobs", t0.cur, t0.idx + 1)),
                       [CurrentUpload(t0) EXCEPT !.ranges = Append(@, PartRange(t0.idx))])
    IN  /\ t0.pc = "ib_partfetch"
        /\ \E outcome \in FetchOutcomes :
             IF outcome = "ok"
             THEN Set(p, [t EXCEPT !.pc = "ib_upload"])
             ELSE Set(p, [Caught(t) EXCEPT !.upfail = @ \/ outcome = "fail"])
        /\ UNCHANGED store

\* upload.uploadPart(idx + 1, res.body), then the loop's test
IbUpload(p) ==
    LET t0 == task[p]
        t == Logged(t0, Ev("uploadPart", "blobs", t0.cur, t0.idx + 1))
        part == [partNumber |-> t.idx + 1,
                 len |-> RangeLen(PartRange(t.idx)[1], PartRange(t.idx)[2],
                                  UpBlobs[t.cur])]
        u == SetUpload(t, [CurrentUpload(t) EXCEPT !.parts = Append(@, part.partNumber)])
    IN  /\ t0.pc = "ib_upload"
        /\ \/ Set(p, [u EXCEPT !.parts = Append(@, part), !.idx = @ + 1,
                               !.pc = IF t.idx + 1 < Ceil(t.contentLength, partSize)
                                      THEN "ib_partfetch" ELSE "ib_complete"])
           \/ Set(p, Caught(t))
        /\ UNCHANGED store

\* faulty variant: complete is called outside the try
IbCompleteUncaught(p) ==
    LET t0 == task[p]
        t == SetUpload(Logged(t0, Ev("complete", "blobs", t0.cur, Len(t0.parts))),
                       [CurrentUpload(t0) EXCEPT
                          !.completes = @ + 1,
                          !.tokens = [i \in 1..Len(t0.parts) |-> t0.parts[i].partNumber]])
    IN  /\ t0.pc = "ib_complete"
        /\ \/ /\ store' = [store EXCEPT ![Key("blobs", t.cur)] =
                              Object(t.cur, SumLen(t.parts))]
              /\ Set(p, [SetUpload(t, [CurrentUpload(t) EXCEPT !.completed = TRUE])
                           EXCEPT !.pc = "ib_get"])
           \/ /\ Set(p, Throw(SetUpload(t, [CurrentUpload(t) EXCEPT !.failed = TRUE])))
              /\ UNCHANGED store

\* upload.complete(parts)
IbComplete(p) ==
    LET t0 == task[p]
        t == SetUpload(Logged(t0, Ev("complete", "blobs", t0.cur, Len(t0.parts))),
                       [CurrentUpload(t0) EXCEPT
                          !.completes = @ + 1,
                          !.tokens = [i \in 1..Len(t0.parts) |-> t0.parts[i].partNumber]])
    IN  /\ t0.pc = "ib_complete"
        /\ \/ /\ store' = [store EXCEPT ![Key("blobs", t.cur)] =
                              Object(t.cur, SumLen(t.parts))]
              /\ Set(p, [SetUpload(t, [CurrentUpload(t) EXCEPT !.completed = TRUE])
                           EXCEPT !.pc = "ib_get"])
           \/ /\ Set(p, Caught(t))
              /\ UNCHANGED store

\* faulty variant: the catch also deletes the blob key
IbAbortDeletes(p) ==
    LET t == Logged(task[p], Ev("abort", "blobs", task[p].cur, 0))
    IN  /\ task[p].pc = "ib_abort"
        /\ Set(p, Throw(SetUpload(t, [CurrentUpload(t) EXCEPT !.aborted = TRUE])))
        /\ store' = [store EXCEPT ![Key("blobs", t.cur)] = Absent]

\* the catch: upload.abort(), then the error is thrown again
IbAbort(p) ==
    LET t == Logged(task[p], Ev("abort", "blobs", task[p].cur, 0))
    IN  /\ task[p].pc = "ib_abort"
        /\ Set(p, Throw(SetUpload(t, [CurrentUpload(t) EXCEPT !.aborted = TRUE])))
        /\ UNCHANGED store

\* env.storage.get of the blob just written
IbGet(p) ==
    LET t == Logged(task[p], Ev("get", "blobs", task[p].cur, 0))
        key == Key("blobs", t.cur)
    IN  /\ task[p].pc = "ib_get"
        /\ \E seen \in RereadOutcomes :
             IF seen = "found" /\ Has(store, key)
             THEN Set(p, AfterBlob(t, Rewrap(store[key], t.res)))
             ELSE Set(p, AfterBlob(t, RereadMiss))
        /\ UNCHANGED store

\* the manifests importAll(d) reaches through index descriptors, as upstream
\* serves them
RECURSIVE Reach(_)
Reach(d) ==
    IF d \notin DOMAIN UpManifests THEN {}
    ELSE {d} \cup UNION {Reach(UpManifests[d].manifests[i]) :
                            i \in 1..Len(UpManifests[d].manifests)}

\* the config and layer blobs of the image manifests importAll(d) reaches
ReachBlobs(d) ==
    UNION {IF IsImage(UpManifests[m].mediaType)
           THEN {UpManifests[m].config} \cup
                {UpManifests[m].layers[i] : i \in 1..Len(UpManifests[m].layers)}
           ELSE {} : m \in Reach(d)}

\* the whole graph of d is in the store
Imported(st, d) ==
    /\ \A m \in Reach(d) : Has(st, Key("manifests", m))
    /\ \A b \in ReachBlobs(d) : Has(st, Key("blobs", b))

(***************************************************************************)
(* importAll's awaits, and the _import route                               *)
(***************************************************************************)
\* faulty variant: the blob is imported whether or not the store has it
ImportHeadAlways(p) ==
    LET t == Logged(task[p], Ev("head", "blobs", task[p].cur, 0))
    IN  /\ task[p].pc = "ia_head"
        /\ Set(p, [t EXCEPT !.pc = "ib_fetch"])
        /\ UNCHANGED store

\* env.storage.head of the config or layer blob: import it unless present
ImportHead(p) ==
    LET t == Logged(task[p], Ev("head", "blobs", task[p].cur, 0))
    IN  /\ task[p].pc = "ia_head"
        /\ IF Has(store, Key("blobs", t.cur))
           THEN Set(p, ImportNext([t EXCEPT !.stack = Advance(@)]))
           ELSE Set(p, [t EXCEPT !.pc = "ib_fetch"])
        /\ UNCHANGED store

\* app.post('/v2/:name{.*}/manifests/:reference/_import')
ImportRoute(p) ==
    LET t == task[p]
        tag == parseTag(t.req.ref)
    IN  /\ t.pc = "import"
        /\ IF tag = EmptyStr
           THEN Set(p, Respond(t, json("MANIFEST_INVALID", 400)))
           ELSE Set(p, [t EXCEPT !.tag = tag, !.pc = "imp_fetch"])
        /\ UNCHANGED store

\* faulty variant: the tag mapping is written as soon as the header is read
ImportFetchPersists(p) ==
    LET t == Logged(task[p], Ev("fetch", "tags", task[p].tag, 0))
        known == t.tag \in DOMAIN upstream
    IN  /\ task[p].pc = "imp_fetch"
        /\ \E outcome \in Outcomes(known), header \in TagHeaders(t.tag) :
             IF outcome = "throw" THEN Set(p, Throw(t)) /\ UNCHANGED store
             ELSE LET d == IF known THEN upstream[t.tag] ELSE EmptyStr
                      size == IF known THEN ManifestSize(d) ELSE 0
                      res == UpstreamResponse(outcome, d, size, size)
                      digest == parseDigest(header)
                  IN  IF ~Ok(res)
                      THEN Set(p, Respond([t EXCEPT !.upfail = TRUE], res))
                           /\ UNCHANGED store
                      ELSE IF digest = NoDigest
                      THEN Set(p, Respond(t, json("MANIFEST_INVALID", 400)))
                           /\ UNCHANGED store
                      ELSE /\ Set(p, [t EXCEPT !.tagRes = res, !.header = header,
                                            !.preloaded = Imported(store, digest.digest),
                                            !.digest = digest.digest, !.ctx = "import",
                                            !.cur = digest.digest, !.pc = "im_fetch"])
                           /\ store' = [store EXCEPT ![Key("tags", t.tag)] =
                                          Object(digest.digest, Len(digest.digest))]

\* the fetch of the manifest by tag, and the parse of its content digest
ImportFetch(p) ==
    LET t == Logged(task[p], Ev("fetch", "tags", task[p].tag, 0))
        known == t.tag \in DOMAIN upstream
    IN  /\ task[p].pc = "imp_fetch"
        /\ \E outcome \in Outcomes(known), header \in TagHeaders(t.tag) :
             IF outcome = "throw" THEN Set(p, Throw(t))
             ELSE LET d == IF known THEN upstream[t.tag] ELSE EmptyStr
                      size == IF known THEN ManifestSize(d) ELSE 0
                      res == UpstreamResponse(outcome, d, size, size)
                      digest == parseDigest(header)
                  IN  IF ~Ok(res) THEN Set(p, Respond([t EXCEPT !.upfail = TRUE], res))
                      ELSE IF digest = NoDigest
                      THEN Set(p, Respond(t, json("MANIFEST_INVALID", 400)))
                      ELSE Set(p, [t EXCEPT !.tagRes = res, !.header = header,
                                            !.preloaded = Imported(store, digest.digest),
                                            !.digest = digest.digest, !.ctx = "import",
                                            !.cur = digest.digest, !.pc = "im_fetch"])
        /\ UNCHANGED store

\* env.storage.put of the tag mapping once importAll returned; then res
ImportTagPut(p) ==
    LET t == Logged(task[p], Ev("put", "tags", task[p].tag, 0))
    IN  /\ task[p].pc = "imp_tagput"
        /\ \/ /\ store' = [store EXCEPT ![Key("tags", t.tag)] =
                              Object(t.digest, Len(t.digest))]
              /\ Set(p, Respond(t, t.tagRes))
           \/ /\ Set(p, Throw(t))
              /\ UNCHANGED store

Step(p) ==
    \/ Start(p)
    \/ Finish(p)
    \/ ManifestRoute(p)
    \/ BlobRoute(p)
    \/ ResolveTagGet(p)
    \/ ResolveTagFetch(p)
    \/ ResolveTagPut(p)
    \/ PullRead(p)
    \/ PullReread(p)
    \/ ImFetch(p)
    \/ ImPut(p)
    \/ ImGet(p)
    \/ IbFetch(p)
    \/ IbPut(p)
    \/ IbCreate(p)
    \/ IbPartFetch(p)
    \/ IbUpload(p)
    \/ IbComplete(p)
    \/ IbAbort(p)
    \/ IbGet(p)
    \/ ImportHead(p)
    \/ ImportRoute(p)
    \/ ImportFetch(p)
    \/ ImportTagPut(p)

Next == \E p \in OneTask : Step(p)

Spec == Init /\ [][Next]_vars

(***************************************************************************)
(* The manifests route alone, while upstream moves the tag between the     *)
(* index and one of its images.                                            *)
(***************************************************************************)
TagTargets == {DIndex, DImg2}

\* upstream: the tag is pushed again and now points to another manifest
Retag ==
    /\ \E tag \in DOMAIN upstream, d \in TagTargets :
         /\ upstream[tag] # d
         /\ upstream' = [upstream EXCEPT ![tag] = d]
    /\ UNCHANGED <<store, task>>

\* a request arrives at the manifests route
StartManifest(p) ==
    /\ task[p].pc = "idle"
    /\ \E ref \in Refs, method \in Methods, hdr \in Headers :
         /\ method = "HEAD" => hdr = "none"
         /\ LET req == [route |-> "manifests", method |-> method, ref |-> ref,
                        hdr |-> hdr]
            IN  Set(p, [IdleTask EXCEPT
                          !.pc = "manifests",
                          !.req = req,
                          !.first = IF req = task[p].req /\ Ok(task[p].resp)
                                    THEN task[p].resp ELSE NoResp])
    /\ UNCHANGED store

StepManifest(p) ==
    \/ StartManifest(p)
    \/ Finish(p)
    \/ ManifestRoute(p)
    \/ ResolveTagGet(p)
    \/ ResolveTagFetch(p)
    \/ ResolveTagPut(p)
    \/ PullRead(p)
    \/ PullReread(p)
    \/ ImFetch(p)
    \/ ImPut(p)
    \/ ImGet(p)

NextRetag == Retag \/ \E p \in OneTask : StepManifest(p)

SpecRetag == Init /\ [][NextRetag]_vars

(***************************************************************************)
(* Two requests at once: pull-through reads by digest of a manifest and of  *)
(* a blob, which is written in parts or, when upstream sends no            *)
(* Content-Length, in one put.  Each await of a handler is a step, and the *)
(* steps of the two tasks interleave freely.                               *)
(***************************************************************************)
PullRefs == {DImg2, DBig}

InitPull ==
    /\ store = [k \in Keys |-> Absent]
    /\ task = [p \in TwoTasks |-> IdleTask]
    /\ upstream = UpTags

\* a request by digest arrives at the manifests or the blobs route
StartPull(p) ==
    /\ task[p].pc = "idle"
    /\ \E route \in {"manifests", "blobs"}, ref \in PullRefs, method \in Methods :
         LET req == [route |-> route, method |-> method, ref |-> ref, hdr |-> "none"]
         IN  Set(p, [IdleTask EXCEPT
                       !.pc = route,
                       !.req = req,
                       !.first = IF req = task[p].req /\ Ok(task[p].resp)
                                 THEN task[p].resp ELSE NoResp])
    /\ UNCHANGED store

StepPull(p) ==
    \/ StartPull(p)
    \/ Finish(p)
    \/ ManifestRoute(p)
    \/ BlobRoute(p)
    \/ PullRead(p)
    \/ PullReread(p)
    \/ ImFetch(p)
    \/ ImPut(p)
    \/ ImGet(p)
    \/ IbFetch(p)
    \/ IbPut(p)
    \/ IbCreate(p)
    \/ IbPartFetch(p)
    \/ IbUpload(p)
    \/ IbComplete(p)
    \/ IbAbort(p)
    \/ IbGet(p)

NextPull == \E p \in TwoTasks : StepPull(p)

SpecPull == InitPull /\ [][NextPull]_vars

(***************************************************************************)
(* The _import route alone, before each of the upstream graphs: the tag    *)
(* leads to the index of two images, to the index with a manifest of an    *)
(* unknown media type, or to the manifest without a mediaType.             *)
(***************************************************************************)
UpGraphs == {UpTags, (TagV1 :> DIndexU), (TagV1 :> DNoType)}

InitImport ==
    /\ store = [k \in Keys |-> Absent]
    /\ task = [p \in OneTask |-> IdleTask]
    /\ upstream \in UpGraphs

\* a request arrives at the _import route
StartImport(p) ==
    /\ task[p].pc = "idle"
    /\ \E ref \in Refs :
         LET req == [route |-> "import", method |-> "POST", ref |-> ref, hdr |-> "none"]
         IN  Set(p, [IdleTask EXCEPT
                       !.pc = "import",
                       !.req = req,
                       !.first = IF req = task[p].req /\ Ok(task[p].resp)
                                 THEN task[p].resp ELSE NoResp])
    /\ UNCHANGED store

StepImport(p) ==
    \/ StartImport(p)
    \/ Finish(p)
    \/ ImportRoute(p)
    \/ ImportFetch(p)
    \/ ImFetch(p)
    \/ ImPut(p)
    \/ ImGet(p)
    \/ ImportHead(p)
    \/ IbFetch(p)
    \/ IbPut(p)
    \/ IbCreate(p)
    \/ IbPartFetch(p)
    \/ IbUpload(p)
    \/ IbComplete(p)
    \/ IbAbort(p)
    \/ IbGet(p)
    \/ ImportTagPut(p)

NextImport == \E p \in OneTask : StepImport(p)

SpecImport == InitImport /\ [][NextImport]_vars

\* every await settles: the fetch or store operation a handler waits for
\* resolves or rejects
SpecImportFair == SpecImport /\ WF_vars(NextImport)

(***************************************************************************)
(* Properties                                                              *)
(***************************************************************************)
IsFetch(e) == e.op = "fetch"
\* a fetch of content (by digest), as opposed to the lookup of a tag
IsContentFetch(e) == e.op = "fetch" /\ e.kind # "tags"

\* importAll(name, digest) of the _import route has returned without raising
ImportReturned(t) ==
    \/ t.pc = "imp_tagput"
    \/ t.pc = "done" /\ t.req.route = "import" /\ Ok(t.resp)

\* C1: whenever importAll(repository, digest) returns without raising (and
\* whenever the _import route answers with its success response), every
\* manifest reachable from the digest and every config and layer blob of
\* every reachable image manifest is in the store.
C1_ImportComplete ==
    \A p \in Tasks : ImportReturned(task[p]) => Imported(store, task[p].digest)

\* C2: when the same manifest or blob request is issued twice in sequence
\* and the first was answered successfully, the second is answered from the
\* store with the same body and without any upstream fetch.
C2_PullThroughIdempotent ==
    \A p \in Tasks :
      LET t == task[p]
      IN  (t.pc = "done" /\ t.req.route \in {"manifests", "blobs"} /\ t.first # NoResp)
          => /\ t.resp.origin = "store"
             /\ t.resp.body = t.first.body
             /\ Len(SelectSeq(t.log, IsFetch)) = 0

\* C3: a multipart upload in which a step after its creation failed is
\* aborted before the error propagates, is never completed and leaves no
\* object under the blob key; an upload that did not fail is not aborted;
\* once importBlob is over every upload it began is exactly one of
\* completed and aborted.
C3_AbortOnFailure ==
    \A p \in Tasks :
      LET t == task[p]
      IN  \A i \in 1..Len(t.uploads) :
            LET u == t.uploads[i]
                over == i < Len(t.uploads) \/ t.pc \in {"done", "idle"}
            IN  /\ u.aborted => u.failed
                /\ u.failed => ~u.completed
                /\ (u.failed /\ over) =>
                     (u.aborted /\ ~Has(store, Key("blobs", u.id)))
                /\ over => (u.completed # u.aborted)
                /\ (over /\ u.failed) => (t.pc = "done" /\ t.resp = InternalError)

\* a part was uploaded, a later step failed, and the upload was aborted
C3_Witness ==
    \E p \in Tasks :
      /\ task[p].pc = "done"
      /\ \E i \in 1..Len(task[p].uploads) :
           /\ task[p].uploads[i].failed
           /\ task[p].uploads[i].aborted
           /\ Len(task[p].uploads[i].parts) >= 1

\* the response HEAD gets for a stored object: no body, content-length the
\* stored size
HeadOf(obj, r) ==
    /\ r.status = 200
    /\ r.body = NoBody
    /\ r.clen = obj.size
    /\ r.origin = "store"

\* the HEAD request of task t went through pullThroughRegistry and is answered
HeadAnswered(t) ==
    /\ t.pc = "done"
    /\ t.req.method = "HEAD"
    /\ t.reads >= 1

\* C4: a HEAD request that misses the store invokes populate exactly once;
\* a non-2xx populate response is returned as it is and the store is not
\* read again; after a successful populate the store is read exactly once
\* more and its HEAD response (content-length the stored size) is returned,
\* or 404 BLOB_UNKNOWN when the key is still absent.  A HEAD request that
\* hits the store never invokes populate.
C4_HeadBeforePopulate ==
    \A p \in Tasks :
      LET t == task[p]
          key == RouteKey(t)
          first == t.log[CHOOSE i \in 1..Len(t.log) :
                           /\ t.log[i].op = "head"
                           /\ \A j \in 1..(i - 1) : t.log[j].op # "head"]
      IN  HeadAnswered(t) =>
            /\ first.hit => (t.populates = 0 /\ t.reads = 1 /\ HeadOf(store[key], t.resp))
            /\ ~first.hit => t.populates = 1
            /\ (t.populates = 1 /\ t.popRes # NoResp /\ ~Ok(t.popRes)) =>
                 (t.resp = t.popRes /\ t.reads = 1)
            /\ (t.populates = 1 /\ Ok(t.popRes)) =>
                 /\ t.reads = 2
                 /\ Has(store, key) => HeadOf(store[key], t.resp)
                 /\ ~Has(store, key) => t.resp = json("BLOB_UNKNOWN", 404)

\* a HEAD request missed, populated the store and was answered from it
C4_Witness ==
    \E p \in Tasks :
      /\ HeadAnswered(task[p])
      /\ task[p].populates = 1
      /\ Ok(task[p].popRes)
      /\ task[p].reads = 2
      /\ task[p].resp.origin = "store"
      /\ task[p].resp.clen = UpBlobs[DBig]

\* the fetches of manifests by digest importAll(d) makes when none fails: one
\* for each path of index descriptors that reaches a manifest
RECURSIVE ManifestVisits(_)
ManifestVisits(d) ==
    IF d \notin DOMAIN UpManifests THEN 1
    ELSE LET ms == UpManifests[d].manifests
             F[i \in 0..Len(ms)] == IF i = 0 THEN 0 ELSE F[i - 1] + ManifestVisits(ms[i])
         IN  1 + F[Len(ms)]

IsManifestFetch(e) == e.op = "fetch" /\ e.kind = "manifests"
IsBlobFetch(e) == e.op = "fetch" /\ e.kind = "blobs"
IsPresentBlobFetch(e) == IsBlobFetch(e) /\ e.hit

\* C5 as stated: during importAll a blob whose key is in the store is never
\* fetched, and importAll of a digest whose whole graph is in the store makes
\* no upstream call.
C5_NoUpstreamWhenImported ==
    \A p \in Tasks :
      LET t == task[p]
      IN  /\ t.ctx = "import" => Len(SelectSeq(t.log, IsPresentBlobFetch)) = 0
          /\ (t.preloaded /\ ImportReturned(t)) => Len(SelectSeq(t.log, IsContentFetch)) = 0

\* C5 as amended: during importAll a blob whose key is in the store is never
\* fetched, and importAll of a digest whose whole graph is in the store
\* fetches no blob and fetches each manifest once per path that reaches it.
C5_NoBlobRefetch ==
    \A p \in Tasks :
      LET t == task[p]
      IN  /\ t.ctx = "import" => Len(SelectSeq(t.log, IsPresentBlobFetch)) = 0
          /\ (t.preloaded /\ ImportReturned(t)) =>
               /\ Len(SelectSeq(t.log, IsBlobFetch)) = 0
               /\ Len(SelectSeq(t.log, IsManifestFetch)) = ManifestVisits(t.digest)

\* importAll returned for a digest whose whole graph was already in the store
C5_Witness ==
    \E p \in Tasks :
      /\ task[p].preloaded
      /\ ImportReturned(task[p])
      /\ task[p].digest = DIndex

\* C6: in every reachable state the value stored under a tags key parses as
\* a digest.
C6_TagsAreDigests ==
    \A key \in Keys : (key[1] = "tags" /\ Has(store, key)) => IsDigest(store[key].data)

\* C7: on POST .../_import with a valid tag, a request during which an
\* upstream fetch was answered non-2xx is answered 500 INTERNAL_ERROR, never
\* with a success response.
C7_ImportFailuresAre500 ==
    \A p \in Tasks :
      LET t == task[p]
      IN  (t.pc = "done" /\ t.req.route = "import" /\ t.req.ref = TagV1 /\ t.upfail)
          => t.resp = InternalError

IsCreate(e) == e.op = "create"
IsBlobPut(e) == e.op = "put" /\ e.kind = "blobs"
IsUploadPart(e) == e.op = "uploadPart"

\* n is the number of parts of a blob of the given length: the least n with
\* n * partSize >= contentLength
IsPartCount(n, contentLength) ==
    /\ n * partSize >= contentLength
    /\ (n - 1) * partSize < contentLength

\* C8: importBlob opens a multipart upload exactly for a reported length
\* above the part size and writes single-shot otherwise; the parts of an
\* upload are uploaded one after the other as parts 1, 2, ...; complete is
\* called at most once, only when ceil(contentLength/partSize) parts have
\* been uploaded, with their tokens in ascending order, and an upload is
\* completed only by that call.
C8_ChunkingOrder ==
    \A p \in Tasks :
      LET t == task[p]
          ups == SelectSeq(t.log, IsUploadPart)
      IN  /\ \A i \in 1..Len(t.log) :
               /\ IsCreate(t.log[i]) => t.log[i].n > partSize
               /\ IsBlobPut(t.log[i]) => t.log[i].n <= partSize
          /\ Len(SelectSeq(t.log, IsCreate)) >= Len(t.uploads)
          /\ \A i \in 1..Len(t.uploads) :
               LET u == t.uploads[i]
               IN  /\ u.contentLength > partSize
                   /\ \A k \in 1..Len(u.parts) : u.parts[k] = k
                   /\ \A n \in 1..Len(u.parts) : (n - 1) * partSize < u.contentLength
                   /\ u.completes <= 1
                   /\ u.completes = 1 =>
                        /\ IsPartCount(Len(u.parts), u.contentLength)
                        /\ u.tokens = u.parts
                   /\ u.completed => u.completes = 1
          \* one part in flight at a time: an uploadPart directly follows the
          \* fetch of its own range
          /\ \A i \in 1..Len(t.log) :
               IsUploadPart(t.log[i]) =>
                 /\ i > 1
                 /\ IsBlobFetch(t.log[i - 1])
                 /\ t.log[i - 1].n = t.log[i].n
                 /\ t.log[i - 1].id = t.log[i].id

\* a blob of MaxParts parts was completed
C8_Witness ==
    \E p \in Tasks : \E i \in 1..Len(task[p].uploads) :
      /\ task[p].uploads[i].completed
      /\ task[p].uploads[i].tokens = [k \in 1..MaxParts |-> k]

\* the ranged fetches of the multipart uploads of t
RECURSIVE PartFetches(_)
PartFetches(uploads) ==
    IF uploads = << >> THEN 0
    ELSE Len(uploads[1].ranges) + PartFetches(Tail(uploads))

\* the request of t missed the store in pullThroughRegistry and is answered
MissAnswered(t) == t.pc = "done" /\ t.populates >= 1

\* C9 as stated: every miss handled by pullThroughRegistry results in
\* exactly one upstream fetch of content, populate is never retried, and a
\* non-HEAD request does not read the store again.
C9_OneFetchPerMiss ==
    \A p \in Tasks :
      LET t == task[p]
      IN  MissAnswered(t) =>
            /\ t.populates = 1
            /\ Len(SelectSeq(t.log, IsContentFetch)) = 1
            /\ t.req.method # "HEAD" => t.reads = 1

\* C9 as amended: every miss invokes populate exactly once; populate makes
\* one upstream fetch of content, and for a blob whose reported length
\* exceeds the part size one more for each part it gets to, at most
\* ceil(contentLength/partSize); a non-HEAD request does not read the store
\* again.
C9_OnePopulatePerMiss ==
    \A p \in Tasks :
      LET t == task[p]
      IN  MissAnswered(t) =>
            /\ t.populates = 1
            /\ Len(SelectSeq(t.log, IsContentFetch)) = 1 + PartFetches(t.uploads)
            /\ t.uploads = << >> => Len(SelectSeq(t.log, IsContentFetch)) = 1
            /\ Len(t.uploads) <= 1
            /\ \A i \in 1..Len(t.uploads) :
                 /\ t.uploads[i].contentLength > partSize
                 /\ (Len(t.uploads[i].ranges) - 1) * partSize < t.uploads[i].contentLength
            /\ t.req.method # "HEAD" => t.reads = 1
            /\ t.req.method = "HEAD" => t.reads <= 2

\* a GET missed and its populate fetched a blob and every part of it
C9_Witness ==
    \E p \in Tasks :
      /\ MissAnswered(task[p])
      /\ task[p].req.method = "GET"
      /\ Len(SelectSeq(task[p].log, IsContentFetch)) = 1 + MaxParts
      /\ Ok(task[p].resp)

\* the references that are malformed for each route
Malformed(req) ==
    \/ req.route = "manifests" /\ req.ref \in {BadAlgorithm, BadHash, BadTag}
    \/ req.route = "blobs" /\ req.ref \in {BadAlgorithm, BadHash, BadTag, TagV1}
    \/ req.route = "import" /\ req.ref \in Refs \ {TagV1}

\* the 4xx each route answers a malformed reference with
Rejection(req) ==
    CASE req.route = "manifests" -> json("MANIFEST_UNKNOWN", 404)
      [] req.route = "blobs" -> json("BLOB_UNKNOWN", 404)
      [] OTHER -> json("MANIFEST_INVALID", 400)

\* C10: a request with a malformed reference is answered with the 4xx of its
\* route, with no upstream call and no store operation, and no step of its
\* handling changes the store.
C10_MalformedRejected ==
    /\ [](\A p \in Tasks :
            (Malformed(task[p].req) /\ task[p].pc = "done") =>
              /\ task[p].resp = Rejection(task[p].req)
              /\ task[p].log = << >>)
    /\ [][\A p \in Tasks :
            (Malformed(task[p].req) /\ task[p].pc # "idle") => store' = store]_vars

\* a reference with an unrecognized algorithm was rejected on the manifest
\* route while the store held a tag mapping
C10_Witness ==
    \E p \in Tasks :
      /\ task[p].pc = "done"
      /\ task[p].req.route = "manifests"
      /\ task[p].req.ref = BadAlgorithm
      /\ task[p].resp = json("MANIFEST_UNKNOWN", 404)
      /\ Has(store, Key("tags", TagV1))

\* C11: once importAll has fetched a manifest whose mediaType is missing or
\* is none of the four it knows, the request does nothing more than store
\* and re-read that manifest: no blob is written, no further manifest or
\* blob is looked at, the tag mapping is not written, and the answer is the
\* 500 INTERNAL_ERROR
KnownType(mt) == IsIndex(mt) \/ IsImage(mt)
ReachedUnknown(e) ==
    /\ e.op = "fetch" /\ e.kind = "manifests"
    /\ e.id \in DOMAIN UpManifests
    /\ ~KnownType(UpManifests[e.id].mediaType)
IsBlobWrite(e) ==
    e.kind = "blobs" /\ e.op \in {"put", "create", "uploadPart", "complete"}
AfterUnknown(t) ==
    t.ctx = "import" /\ \E i \in 1..Len(t.log) : ReachedUnknown(t.log[i])
C11_UnknownMediaTypeFatal ==
    /\ [](\A p \in Tasks :
           LET t == task[p]
           IN  t.ctx = "import" =>
                 \A i \in 1..Len(t.log) :
                    ReachedUnknown(t.log[i]) =>
                      /\ t.pc \in {"im_put", "im_get", "done"}
                      /\ t.pc = "done" => t.resp = InternalError
                      /\ \A j \in (i + 1)..Len(t.log) :
                            /\ t.log[j].kind = "manifests"
                            /\ t.log[j].id = t.log[i].id
                            /\ t.log[j].op \in {"put", "get"})
    /\ [][\A p \in Tasks :
            AfterUnknown(task[p]) /\ task'[p].pc # "idle" =>
              \A k \in Keys : k[1] # "manifests" => store'[k] = store[k]]_vars

\* reached: the import of the index failed at its second manifest; the
\* blobs of the first image are in the store, the layer of the unknown
\* manifest and the tag mapping are not
C11_Witness ==
    \E p \in Tasks :
       LET t == task[p]
       IN  /\ t.pc = "done" /\ t.ctx = "import" /\ t.resp = InternalError
           /\ \E i \in 1..Len(t.log) :
                 ReachedUnknown(t.log[i]) /\ t.log[i].id = DUnknown
           /\ Has(store, Key("manifests", DUnknown))
           /\ Has(store, Key("blobs", DCfg)) /\ Has(store, Key("blobs", DSmall))
           /\ ~Has(store, Key("blobs", DBig))
           /\ ~Has(store, Key("tags", t.tag))

\* C12: a GET answered from the store has status 206 exactly when the request
\* carried a Range header and content is served, and then also a
\* content-range `bytes offset-(offset+length-1)/total` and a content-length
\* equal to the partial length; without a Range header it is a 200 whose
\* content-length is the full size; a store result without a body is a 304
FromStore(t) ==
    /\ t.pc = "done" /\ t.req.method = "GET" /\ t.resp.origin = "store"
    /\ Has(store, RouteKey(t))
C12_RangeStatus ==
    \A p \in Tasks :
      LET t == task[p]
          r == t.resp
          size == store[RouteKey(t)].size
      IN  FromStore(t) =>
            /\ r.body = NoBody <=> r.status = 304
            /\ (r.body # NoBody /\ t.req.hdr \in {"range", "suffix"}) =>
                  /\ r.status = 206
                  /\ r.crange = <<r.body.off, r.body.off + r.body.len - 1, size>>
                  /\ r.clen = r.body.len
            /\ (r.body # NoBody /\ t.req.hdr \notin {"range", "suffix"}) =>
                  r.status = 200 /\ r.clen = size /\ r.body.len = size
            /\ r.status = 206 => r.crange # << >>

\* C13: when the store has a mapping for the tag of a manifests request,
\* resolveTagToDigest makes no upstream call and writes nothing: the digest
\* it returns is the stored text parsed as a digest (no digest when the text
\* does not parse), whatever digest upstream has for the tag by now, and the
\* mapping stays as it was
CacheHit(t) ==
    /\ t.req.route = "manifests" /\ t.pc # "idle"
    /\ t.log # << >>
    /\ t.log[1].op = "get" /\ t.log[1].kind = "tags" /\ t.log[1].hit
C13_CachedTagNotRevalidated ==
    /\ [](\A p \in Tasks :
           LET t == task[p]
               stored == store[Key("tags", t.tag)]
           IN  CacheHit(t) =>
                 /\ stored.present
                 /\ t.pc \notin {"rt_fetch", "rt_put"}
                 /\ \A i \in 2..Len(t.log) : t.log[i].kind # "tags"
                 /\ IF IsDigest(stored.data)
                    THEN t.digest = stored.data
                    ELSE t.pc = "done" /\ t.resp = json("MANIFEST_UNKNOWN", 404))
    /\ [][\A p \in Tasks :
            CacheHit(task[p]) =>
              store'[Key("tags", task[p].tag)] = store[Key("tags", task[p].tag)]]_vars

\* reached: a manifests request by tag was answered with the manifest of the
\* stored digest while upstream had the tag on another digest
C13_Witness ==
    \E p \in Tasks :
       LET t == task[p]
           stored == store[Key("tags", t.tag)]
       IN  /\ CacheHit(t) /\ t.pc = "done"
           /\ IsDigest(stored.data)
           /\ upstream[t.tag] # stored.data
           /\ t.resp.status = 200 /\ t.resp.body.data = stored.data
           /\ Len(SelectSeq(t.log, IsFetch)) = 0

\* C14: every response with a status of 400 or more that the handlers build
\* (the error responses upstream sent, handed on as they came, are left
\* aside) has Content-Type application/json and a body {errors: [{code}]}
C14_ErrorEnvelope ==
    \A p \in Tasks :
      LET r == task[p].resp
      IN  (task[p].pc = "done" /\ r.status >= 400 /\ r.origin # "upstream")
          => r.ctype = "application/json" /\ r.code # "none"

\* C15: with two requests at once, whatever the store shows under a
\* manifest or blob key is the whole upstream content of that digest, and a
\* step of one request (the abort of its multipart upload among them) never
\* removes or changes an object the store already shows
DigestKeys == {"manifests", "blobs"} \X Ids
UpContent(key) ==
    Object(key[2], IF key[1] = "manifests" THEN ManifestSize(key[2]) ELSE UpBlobs[key[2]])
C15_ConcurrentMissesSafe ==
    /\ [](\A key \in DigestKeys : Has(store, key) => store[key] = UpContent(key))
    /\ [][\A p \in Tasks :
            (task[p].pc = "ib_abort" /\ task'[p].pc # "ib_abort") =>
              \A key \in DigestKeys : Has(store, key) => store'[key] = store[key]]_vars

\* reached: both requests missed the same blob and began a multipart
\* upload; one completed it, and the other failed and aborted its own when
\* the object was already there; the object is still there
C15_Witness ==
    \E p \in Tasks, q \in Tasks :
       LET t == task[p]
           u == task[q]
       IN  /\ p # q
           /\ t.uploads # << >> /\ CurrentUpload(t).id = DBig /\ CurrentUpload(t).completed
           /\ u.uploads # << >> /\ CurrentUpload(u).id = DBig /\ CurrentUpload(u).aborted
           /\ u.pc = "done" /\ u.log[Len(u.log)].op = "abort" /\ u.log[Len(u.log)].hit
           /\ \E i \in 1..Len(u.log) : u.log[i].op = "create" /\ ~u.log[i].hit
           /\ store[Key("blobs", DBig)] = UpContent(Key("blobs", DBig))

\* C16: an object the store shows under a manifest or blob key is there, with
\* the same content, after every step of every GET, HEAD and _import request
C16_DigestObjectsStay ==
    [][\A key \in DigestKeys : Has(store, key) => store'[key] = store[key]]_vars

\* reached: an _import of a tag whose index was already in the store wrote
\* the index again, then failed; and a multipart upload was aborted in the
\* same request; the index is still in the store
C16_Witness ==
    \E p \in Tasks :
       LET t == task[p]
       IN  /\ t.pc = "done" /\ t.req.route = "import"
           /\ \E i \in 1..Len(t.log) :
                 /\ t.log[i].op = "put" /\ t.log[i].kind = "manifests"
                 /\ t.log[i].id = DIndex /\ t.log[i].hit
           /\ \E i \in 1..Len(t.uploads) : t.uploads[i].aborted
           /\ store[Key("manifests", DIndex)] = UpContent(Key("manifests", DIndex))

\* C17: the _import route writes the tag mapping only as its last step, when
\* importAll has returned (every manifest of the graph is then in the
\* store), and writes the parsed digest; a request answered 400 for an
\* invalid header, or 500 because the import raised, has not written it; so
\* a mapping written by _import points to a manifest the store has
C17_TagPersistedLast ==
    /\ [](\A p \in Tasks :
           LET t == task[p]
           IN  /\ t.pc = "imp_tagput" =>
                    /\ t.stack = << >> /\ IsDigest(t.digest)
                    /\ \A m \in Reach(t.digest) : Has(store, Key("manifests", m))
               /\ \A i \in 1..Len(t.log) :
                    (t.log[i].op = "put" /\ t.log[i].kind = "tags") =>
                      i = Len(t.log) /\ t.pc = "done")
    /\ [](\A tag \in DOMAIN upstream :
           Has(store, Key("tags", tag)) =>
             /\ IsDigest(store[Key("tags", tag)].data)
             /\ Has(store, Key("manifests", store[Key("tags", tag)].data)))
    /\ [][\A p \in Tasks :
            LET t == task[p]
                key == Key("tags", t.tag)
            IN  (t.req.route = "import" /\ t.tag # EmptyStr /\ store'[key] # store[key]) =>
                  /\ t.pc = "imp_tagput"
                  /\ store'[key].data = t.digest
                  /\ task'[p].pc = "done" /\ task'[p].resp = t.tagRes]_vars

\* reached: an _import answered with upstream's response, its last
\* operation the write of the tag, the mapping pointing to the stored index
C17_Witness ==
    \E p \in Tasks :
       LET t == task[p]
       IN  /\ t.pc = "done" /\ t.req.route = "import" /\ Ok(t.resp)
           /\ t.log[Len(t.log)].op = "put" /\ t.log[Len(t.log)].kind = "tags"
           /\ store[Key("tags", t.tag)].data = DIndex
           /\ Has(store, Key("manifests", DIndex))

\* C18: importAll of a digest, once begun, returns or raises; up to then it
\* has fetched no manifest more often than there are paths of index
\* descriptors from the digest to it, and when it returns it has fetched
\* each exactly that often; the calls of importAll in progress are never
\* more than the graph is deep
RECURSIVE PathsTo(_, _)
PathsTo(d, m) ==
    IF d \notin DOMAIN UpManifests THEN IF d = m THEN 1 ELSE 0
    ELSE LET ms == UpManifests[d].manifests
             F[i \in 0..Len(ms)] == IF i = 0 THEN 0 ELSE F[i - 1] + PathsTo(ms[i], m)
         IN  (IF d = m THEN 1 ELSE 0) + F[Len(ms)]
RECURSIVE GraphDepth(_)
GraphDepth(d) ==
    IF d \notin DOMAIN UpManifests THEN 1
    ELSE LET ms == UpManifests[d].manifests
             F[i \in 0..Len(ms)] ==
                 IF i = 0 THEN 0
                 ELSE IF F[i - 1] > GraphDepth(ms[i]) THEN F[i - 1] ELSE GraphDepth(ms[i])
         IN  1 + F[Len(ms)]
\* the calls of importAll in progress: the frames, and the call that is
\* still at its importManifest
CallDepth(t) ==
    Len(t.stack) + (IF t.pc \in {"im_fetch", "im_put", "im_get"} THEN 1 ELSE 0)
FetchesOf(t, m) ==
    Cardinality({i \in 1..Len(t.log) : IsManifestFetch(t.log[i]) /\ t.log[i].id = m})
Importing(p) ==
    task[p].ctx = "import" /\ task[p].pc \notin {"idle", "done", "imp_tagput"}
C18_ImportTerminates ==
    /\ [](\A p \in Tasks :
           LET t == task[p]
           IN  t.ctx = "import" =>
                 /\ CallDepth(t) <= GraphDepth(t.digest)
                 /\ \A m \in Ids : FetchesOf(t, m) <= PathsTo(t.digest, m)
                 /\ ImportReturned(t) =>
                       \A m \in Ids : FetchesOf(t, m) = PathsTo(t.digest, m))
    /\ \A p \in OneTask :
         Importing(p) ~> (task[p].pc \in {"done", "imp_tagput"})

\* reached: importAll of the index returned, two calls deep at its deepest,
\* each of the three manifests fetched once
C18_Witness ==
    \E p \in Tasks :
       LET t == task[p]
       IN  /\ t.pc = "imp_tagput" /\ t.digest = DIndex
           /\ GraphDepth(DIndex) = 2
           /\ \A m \in Reach(DIndex) : FetchesOf(t, m) = 1

\* C19: the ranged fetches of a multipart upload ask, in order, for the
\* windows [i * partSize, (i + 1) * partSize - 1], i = 0, 1, ...: the first
\* starts at byte 0, each starts below contentLength and right after the end
\* of the one before, and when complete is called there are
\* ceil(contentLength / partSize) of them and the last ends at or after the
\* last byte
C19_PartRangesTile ==
    \A p \in Tasks :
      \A i \in 1..Len(task[p].uploads) :
        LET u == task[p].uploads[i]
            n == Len(u.ranges)
        IN  /\ \A k \in 1..n :
                 /\ u.ranges[k] = <<(k - 1) * partSize, k * partSize - 1>>
                 /\ u.ranges[k][1] < u.contentLength
                 /\ k = 1 => u.ranges[k][1] = 0
                 /\ k > 1 => u.ranges[k][1] = u.ranges[k - 1][2] + 1
            /\ u.completes > 0 =>
                 /\ n = Ceil(u.contentLength, partSize)
                 /\ u.ranges[n][2] >= u.contentLength - 1
                 /\ u.ranges[n][1] <= u.contentLength - 1

\* reached: a blob of more than two parts was fetched window by window and
\* its upload completed
C19_Witness ==
    \E p \in Tasks : \E i \in 1..Len(task[p].uploads) :
       LET u == task[p].uploads[i]
       IN  /\ u.completed
           /\ u.contentLength = UpBlobs[DBig]
           /\ Len(u.ranges) = MaxParts
           /\ u.ranges[MaxParts][2] > u.contentLength - 1

\* C20: importAll takes up the manifests and blobs of the graph one after the
\* other in depth-first order: a manifest, then for an index each of its
\* manifests in turn with all that is below it, for an image its config and
\* then its layers in the order of the manifest; and every operation it
\* awaits belongs to the manifest or blob taken up last, so the work on
\* one is over before the next is touched
RECURSIVE DfsOrder(_)
DfsOrder(d) ==
    IF d \notin DOMAIN UpManifests THEN <<Key("manifests", d)>>
    ELSE LET c == UpManifests[d]
             F[i \in 0..Len(c.manifests)] ==
                 IF i = 0 THEN << >> ELSE F[i - 1] \o DfsOrder(c.manifests[i])
         IN  <<Key("manifests", d)>> \o
             (IF IsIndex(c.mediaType) THEN F[Len(c.manifests)]
              ELSE IF IsImage(c.mediaType)
              THEN <<Key("blobs", c.config)>> \o
                   [k \in 1..Len(c.layers) |-> Key("blobs", c.layers[k])]
              ELSE << >>)
\* importAll takes up a manifest with its fetch and a blob with the head
IsVisit(e) ==
    \/ e.op = "fetch" /\ e.kind = "manifests"
    \/ e.op = "head" /\ e.kind = "blobs"
NotTagOp(e) == e.kind # "tags"
ImportOps(t) == SelectSeq(t.log, NotTagOp)
Visits(t) ==
    LET vs == SelectSeq(t.log, IsVisit)
    IN  [k \in 1..Len(vs) |-> Key(vs[k].kind, vs[k].id)]
C20_DepthFirstSequential ==
    \A p \in Tasks :
      LET t == task[p]
          ops == ImportOps(t)
          order == DfsOrder(t.digest)
      IN  t.ctx = "import" =>
            /\ Len(Visits(t)) <= Len(order)
            /\ Visits(t) = SubSeq(order, 1, Len(Visits(t)))
            /\ ImportReturned(t) => Visits(t) = order
            /\ ops # << >> => IsVisit(ops[1])
            /\ \A i \in 2..Len(ops) :
                  \/ IsVisit(ops[i])
                  \/ ops[i].kind = ops[i - 1].kind /\ ops[i].id = ops[i - 1].id

\* reached: the import of the index returned after taking up the index, the
\* first image with its config and layer, then the second image with its
\* config and layer
C20_Witness ==
    \E p \in Tasks :
       LET t == task[p]
       IN  /\ t.pc = "imp_tagput" /\ t.digest = DIndex
           /\ Visits(t) = <<Key("manifests", DIndex),
                            Key("manifests", DImg1), Key("blobs", DCfg), Key("blobs", DBig),
                            Key("manifests", DImg2), Key("blobs", DCfg), Key("blobs", DSmall)>>
           /\ \E i \in 1..Len(t.log) : t.log[i].op = "complete"
====
